---- MODULE Spec2Model ----
(***************************************************************************)
(* Model of rulesets/twelve-factor-validator.py: the command-line driver,  *)
(* TwelveFactorValidator.validate_all with its twelve checks, and          *)
(* generate_report.                                                        *)
(*                                                                         *)
(* The project tree is the sequence of entries that rglob("*") yields      *)
(* below the project root.  A file's text is abstracted to the set of      *)
(* regular expressions and literal tokens that occur in it, so             *)
(* re.search(pattern, text) and "token in text" are membership tests;      *)
(* structured files (requirements.txt, package.json, docker-compose.yml)   *)
(* carry their lines, versions or services in the field doc.               *)
(***************************************************************************)
EXTENDS Integers, Sequences, FiniteSets, TLC

VARIABLES argv, pathExists, tree, pc, validator, passes, warnings, violations,
          score, out, exc, exitStatus

vars == <<argv, pathExists, tree, pc, validator, passes, warnings, violations,
          score, out, exc, exitStatus>>

(***************************************************************************)
(* Bounds of the model.                                                    *)
(***************************************************************************)
\* how many items of Universe a small project tree is assembled from
MaxItems == 2
\* how many generated source files precede the tail of a bulk project tree
MaxFill == 21

(***************************************************************************)
(* Sequence helpers.                                                       *)
(***************************************************************************)
RECURSIVE Concat(_)
Concat(ss) == IF ss = <<>> THEN <<>> ELSE Head(ss) \o Concat(Tail(ss))

RECURSIVE Reverse(_)
Reverse(s) == IF s = <<>> THEN <<>> ELSE Reverse(Tail(s)) \o <<Head(s)>>

\* s[:n] of Python
Prefix(s, n) == SubSeq(s, 1, IF Len(s) < n THEN Len(s) ELSE n)

Range(s) == {s[i] : i \in 1..Len(s)}

\* the concatenation of F(s[1]), F(s[2]), ...: the findings a loop over s
\* appends when its body appends F(x) for the element x
RECURSIVE FlatMap(_, _)
FlatMap(F(_), s) == IF s = <<>> THEN <<>> ELSE F(Head(s)) \o FlatMap(F, Tail(s))

(***************************************************************************)
(* Entries of the project tree.                                            *)
(*   path    path relative to the project root                             *)
(*   dir     relative path of the parent directory ("" is the root)        *)
(*   name    last path component                                           *)
(*   suffix  Path.suffix                                                   *)
(*   isFile  Path.is_file()                                                *)
(*   read    "ok", or why read_text() fails: "denied" (PermissionError),   *)
(*           "binary" (UnicodeDecodeError)                                 *)
(*   tokens  the patterns and literal tokens occurring in the text         *)
(*   parse   for structured files: "ok", "error" (the parser raises) or    *)
(*           "null" (the document is empty: the parser returns None)       *)
(*   doc     for structured files: the sequence of lines / versions /      *)
(*           service names; each a sequence of lexemes                     *)
(***************************************************************************)
Entry(path, dir, name, suffix, isFile, read, tokens, parse, doc) ==
    [path |-> path, dir |-> dir, name |-> name, suffix |-> suffix,
     isFile |-> isFile, read |-> read, tokens |-> tokens,
     parse |-> parse, doc |-> doc]

File(name, suffix, tokens) ==
    Entry(name, "", name, suffix, TRUE, "ok", tokens, "ok", <<>>)

Doc(name, suffix, parse, doc) ==
    Entry(name, "", name, suffix, TRUE, "ok", {}, parse, doc)

\* a file whose read_text() raises; tokens is what its bytes would match
BadFile(name, suffix, read, tokens) ==
    Entry(name, "", name, suffix, TRUE, read, tokens, "ok", <<>>)

Dir(name) ==
    Entry(name, "", name, "", FALSE, "ok", {}, "ok", <<>>)

\* a directory whose name ends like a source file's
DirWithSuffix(name, suffix) ==
    Entry(name, "", name, suffix, FALSE, "ok", {}, "ok", <<>>)

\* Path.read_text(): succeeds only on a regular file that is readable and
\* decodes as text.
CanRead(e) == e.isFile /\ e.read = "ok"

ReadError(e) ==
    IF ~e.isFile THEN "IsADirectoryError"
    ELSE IF e.read = "denied" THEN "PermissionError"
    ELSE "UnicodeDecodeError"

\* (self.project_path / p).exists()
Exists(t, p) == \E i \in 1..Len(t) : t[i].path = p

\* the entry at path p (only used where Exists(t, p))
At(t, p) == t[CHOOSE i \in 1..Len(t) : t[i].path = p]

\* self.project_path.rglob("*" + suffix), in traversal order
RglobSuffix(t, suffix) == SelectSeq(t, LAMBDA e : e.suffix = suffix)

\* self.project_path.rglob(name), in traversal order
RglobName(t, name) == SelectSeq(t, LAMBDA e : e.name = name)

\* re.search(pattern, content) and "token in content"
Search(pattern, e) == pattern \in e.tokens


(***************************************************************************)
(* Findings.  The code appends formatted strings; a finding is the message *)
(* with the file name and the count that the f-string interpolates.        *)
(***************************************************************************)
Finding(desc, file, count) == [desc |-> desc, file |-> file, count |-> count]

Msg(desc) == Finding(desc, "", 0)

\* the three result collections of a validator
Results(p, w, v) == [passes |-> p, warnings |-> w, violations |-> v]

AddPass(r, f) == [r EXCEPT !.passes = Append(@, f)]
AddWarning(r, f) == [r EXCEPT !.warnings = Append(@, f)]
AddViolation(r, f) == [r EXCEPT !.violations = Append(@, f)]

Pattern(re, desc) == [re |-> re, desc |-> desc]

(***************************************************************************)
(* Factor I: Codebase                                                      *)
(***************************************************************************)
app_indicators ==
    <<"package.json", "requirements.txt", "Gemfile", "pom.xml", "build.gradle">>

\* set(p.parent for p in app_roots)
AppRootParents(t) ==
    {e.dir : e \in Range(FlatMap(LAMBDA ind : RglobName(t, ind), app_indicators))}

\* Factor1Git recording the missing repository as a warning
Factor1GitWarning(t, r) ==
    IF Exists(t, ".git")
    THEN AddPass(r, Msg("Git repository found"))
    ELSE AddWarning(r, Msg("No Git repository found"))

Factor1Git(t, r) ==
    IF Exists(t, ".git")
    THEN AddPass(r, Msg("Git repository found"))
    ELSE AddViolation(r, Msg("No Git repository found"))

Factor1AppRoots(t, r) ==
    IF Cardinality(AppRootParents(t)) > 1
    THEN AddWarning(r, Msg("Multiple app roots detected - possible violation"))
    ELSE r

Factor1Gitignore(t, r) ==
    IF Exists(t, ".gitignore")
    THEN AddPass(r, Msg(".gitignore present"))
    ELSE AddWarning(r, Msg("No .gitignore file"))

Factor1(t, r) == Factor1Gitignore(t, Factor1AppRoots(t, Factor1Git(t, r)))

(***************************************************************************)
(* Factor II: Dependencies                                                 *)
(* A line of requirements.txt and a version of package.json are sequences  *)
(* of lexemes: " " is white space, "#", "-", "==", "^", "~", "*" are the   *)
(* characters the code looks for, anything else is other text.             *)
(***************************************************************************)
RECURSIVE LStrip(_)
LStrip(l) == IF l # <<>> /\ Head(l) = " " THEN LStrip(Tail(l)) ELSE l

\* str.strip()
Strip(l) == Reverse(LStrip(Reverse(LStrip(l))))

\* str.startswith(c)
StartsWith(l, c) == l # <<>> /\ Head(l) = c

\* c in str
Contains(l, c) == \E i \in 1..Len(l) : l[i] = c

\* json.loads(pkg_file.read_text()) and pkg_data.get("dependencies", {})
\* complete without raising
NpmLoads(e) == CanRead(e) /\ e.parse = "ok"

\* [d for d in deps.values() if any(c in d for c in ["^", "~", "*"])]
fuzzy_versions(e) ==
    SelectSeq(e.doc, LAMBDA d : \E c \in {"^", "~", "*"} : Contains(d, c))

_check_npm_deps(t, r) ==
    LET e == At(t, "package.json") IN
    IF ~NpmLoads(e) THEN r
    ELSE IF fuzzy_versions(e) # <<>>
    THEN AddWarning(r, Finding("dependencies with fuzzy versions", "",
                               Len(fuzzy_versions(e))))
    ELSE AddPass(r, Msg("All npm dependencies have exact versions"))

\* [l.strip() for l in content.split('\n') if l.strip() and not l.startswith('#')]
requirement_lines(e) ==
    FlatMap(LAMBDA l : IF Strip(l) # <<>> /\ ~StartsWith(l, "#")
                       THEN <<Strip(l)>> ELSE <<>>,
            e.doc)

\* [l for l in lines if "==" not in l and not l.startswith('-')]
unpinned(e) ==
    SelectSeq(requirement_lines(e),
              LAMBDA l : ~Contains(l, "==") /\ ~StartsWith(l, "-"))

\* _check_python_deps counting option lines ("-r ...") as unpinned
_check_python_deps_options(t, r) ==
    LET e == At(t, "requirements.txt")
        loose == SelectSeq(requirement_lines(e), LAMBDA l : ~Contains(l, "=="))
    IN IF ~CanRead(e) THEN r
       ELSE IF loose # <<>>
       THEN AddWarning(r, Finding("Python dependencies without exact versions", "",
                                  Len(loose)))
       ELSE AddPass(r, Msg("All Python dependencies have exact versions"))

_check_python_deps(t, r) ==
    LET e == At(t, "requirements.txt") IN
    IF ~CanRead(e) THEN r
    ELSE IF unpinned(e) # <<>>
    THEN AddWarning(r, Finding("Python dependencies without exact versions", "",
                               Len(unpinned(e))))
    ELSE AddPass(r, Msg("All Python dependencies have exact versions"))

_check_pipenv_deps(t, r) == AddPass(r, Msg("Pipenv used for dependency management"))

_check_ruby_deps(t, r) == AddPass(r, Msg("Gemfile present for dependency management"))

_check_maven_deps(t, r) ==
    AddPass(r, Msg("Maven pom.xml present for dependency management"))

_check_gradle_deps(t, r) ==
    AddPass(r, Msg("Gradle build file present for dependency management"))

_check_go_deps(t, r) == AddPass(r, Msg("Go modules used for dependency management"))

\* the keys of the dict manifests, in insertion order
manifests ==
    <<"package.json", "requirements.txt", "Pipfile", "Gemfile", "pom.xml",
      "build.gradle", "go.mod">>

\* manifests[manifest](): the checker the dict maps the manifest to
Checker(manifest, t, r) ==
    CASE manifest = "package.json" -> _check_npm_deps(t, r)
      [] manifest = "requirements.txt" -> _check_python_deps(t, r)
      [] manifest = "Pipfile" -> _check_pipenv_deps(t, r)
      [] manifest = "Gemfile" -> _check_ruby_deps(t, r)
      [] manifest = "pom.xml" -> _check_maven_deps(t, r)
      [] manifest = "build.gradle" -> _check_gradle_deps(t, r)
      [] manifest = "go.mod" -> _check_go_deps(t, r)

\* for manifest, checker in manifests.items(): if exists: checker()
RECURSIVE RunCheckers(_, _, _)
RunCheckers(ms, t, r) ==
    IF ms = <<>> THEN r
    ELSE RunCheckers(Tail(ms), t,
                     IF Exists(t, Head(ms)) THEN Checker(Head(ms), t, r) ELSE r)

manifest_found(t) == \E i \in 1..Len(manifests) : Exists(t, manifests[i])

\* Factor2Manifests recording the missing manifest as a warning
Factor2ManifestsWarning(t, r) ==
    LET r1 == RunCheckers(manifests, t, r) IN
    IF ~manifest_found(t)
    THEN AddWarning(r1, Msg("No dependency manifest found"))
    ELSE r1

Factor2Manifests(t, r) ==
    LET r1 == RunCheckers(manifests, t, r) IN
    IF ~manifest_found(t)
    THEN AddViolation(r1, Msg("No dependency manifest found"))
    ELSE r1

lock_files ==
    <<"package-lock.json", "yarn.lock", "Pipfile.lock", "Gemfile.lock", "go.sum">>

lock_found(t) == \E i \in 1..Len(lock_files) : Exists(t, lock_files[i])

Factor2Locks(t, r) ==
    IF lock_found(t)
    THEN AddPass(r, Msg("Dependency lock file present"))
    ELSE AddWarning(r, Msg("No lock file found - exact versions not guaranteed"))

Factor2(t, r) == Factor2Locks(t, Factor2Manifests(t, r))

(***************************************************************************)
(* Factor III: Config                                                      *)
(***************************************************************************)
\* for file in code_files[:20]
SampleLimit == 20

env_examples == <<".env.example", ".env.sample", "env.example">>

Factor3EnvExample(t, r) ==
    IF \E i \in 1..Len(env_examples) : Exists(t, env_examples[i])
    THEN AddPass(r, Msg("Environment variable documentation found"))
    ELSE AddWarning(r, Msg("No .env.example file documenting required variables"))

suspicious_patterns ==
    <<Pattern("(password|secret|key|token)=...", "Hardcoded secrets"),
      Pattern("(localhost|127.0.0.1):port", "Hardcoded localhost URLs"),
      Pattern("https?://host.(com|org|net)", "Hardcoded external URLs"),
      Pattern("[A-Z_]+=...", "Possible hardcoded config")>>

\* rglob("*.py") + rglob("*.js") + rglob("*.java") + rglob("*.rb")
code_files(t) ==
    RglobSuffix(t, ".py") \o RglobSuffix(t, ".js") \o
    RglobSuffix(t, ".java") \o RglobSuffix(t, ".rb")

\* FirstSuspicious without the break: every matching pattern appends
RECURSIVE AllSuspicious(_, _)
AllSuspicious(ps, e) ==
    IF ps = <<>> THEN <<>>
    ELSE (IF Search(Head(ps).re, e)
          THEN <<Finding(Head(ps).desc, e.path, 0)>> ELSE <<>>)
         \o AllSuspicious(Tail(ps), e)

\* the body of "for pattern, desc in suspicious_patterns" for one file whose
\* text was read: the first pattern that matches appends and breaks
RECURSIVE FirstSuspicious(_, _)
FirstSuspicious(ps, e) ==
    IF ps = <<>> THEN <<>>
    ELSE IF Search(Head(ps).re, e)
    THEN <<Finding(Head(ps).desc, e.path, 0)>>
    ELSE FirstSuspicious(Tail(ps), e)

\* ConfigScanFile with an except clause that reports the file
ConfigScanFileReporting(e) ==
    IF CanRead(e) THEN FirstSuspicious(suspicious_patterns, e)
    ELSE <<Finding("Unreadable file", e.path, 0)>>

\* the try block for one file of the sample
ConfigScanFile(e) ==
    IF CanRead(e) THEN FirstSuspicious(suspicious_patterns, e) ELSE <<>>

Factor3Scan(t, r) ==
    [r EXCEPT !.warnings =
        @ \o FlatMap(ConfigScanFile, Prefix(code_files(t), SampleLimit))]

bad_configs ==
    <<"config/production.json", "config/development.json",
      "settings/prod.py", "settings/dev.py">>

Factor3BadConfigs(t, r) ==
    [r EXCEPT !.violations =
        @ \o FlatMap(LAMBDA config :
                         IF Exists(t, config)
                         THEN <<Finding("Environment-specific config file", config, 0)>>
                         ELSE <<>>,
                     bad_configs)]

Factor3(t, r) == Factor3BadConfigs(t, Factor3Scan(t, Factor3EnvExample(t, r)))

(***************************************************************************)
(* Factor IV: Backing services                                             *)
(***************************************************************************)
env_patterns ==
    <<"DATABASE_URL", "REDIS_URL", "RABBITMQ_URL",
      "ELASTICSEARCH_URL", "MONGODB_URI", "CACHE_URL">>

\* the try block for one *.py file: does it set found_service_configs
ServiceConfigIn(e) ==
    /\ CanRead(e)
    /\ \E i \in 1..Len(env_patterns) :
           Search("os.environ", e) /\ Search(env_patterns[i], e)

found_service_configs(t) ==
    LET py == RglobSuffix(t, ".py") IN
    \E i \in 1..Len(py) : ServiceConfigIn(py[i])

Factor4(t, r) ==
    IF found_service_configs(t)
    THEN AddPass(r, Msg("Services referenced via environment variables"))
    ELSE AddWarning(r, Msg("No backing service environment variables detected"))

(***************************************************************************)
(* Factor V: Build, release, run.  Dockerfile's read_text() is not inside  *)
(* a try block: Factor5Raises names the exception that leaves the check.   *)
(***************************************************************************)
NoException == ""

Factor5Raises(t) ==
    IF Exists(t, "Dockerfile") /\ ~CanRead(At(t, "Dockerfile"))
    THEN ReadError(At(t, "Dockerfile"))
    ELSE NoException

ci_files == <<".github/workflows", ".gitlab-ci.yml", "Jenkinsfile", ".circleci/config.yml">>

\* the statements up to the read of Dockerfile
Factor5Dockerfile(t, r) ==
    IF Exists(t, "Dockerfile")
    THEN AddPass(r, Msg("Dockerfile present for containerized builds"))
    ELSE AddWarning(r, Msg("No Dockerfile found"))

\* the statements after a read of Dockerfile that did not raise
Factor5Rest(t, r) ==
    LET r1 == IF /\ Exists(t, "Dockerfile")
                 /\ Search("COPY", At(t, "Dockerfile"))
                 /\ Search("RUN", At(t, "Dockerfile"))
              THEN AddPass(r, Msg("Build steps separated in Dockerfile"))
              ELSE r
    IN IF \E i \in 1..Len(ci_files) : Exists(t, ci_files[i])
       THEN AddPass(r1, Msg("CI/CD configuration found"))
       ELSE r1

Factor5(t, r) ==
    IF Factor5Raises(t) # NoException
    THEN Factor5Dockerfile(t, r)
    ELSE Factor5Rest(t, Factor5Dockerfile(t, r))

(***************************************************************************)
(* Factor VI: Processes                                                    *)
(***************************************************************************)
\* list(self.project_path.rglob("*.js"))[:10]
FsSampleLimit == 10

session_violations ==
    <<Pattern("session[..]=", "Session storage detected"),
      Pattern("express-session...store: new XStore", "Server-side session store"),
      Pattern("sticky.?session", "Sticky sessions detected")>>

\* the try block for one *.js file: every matching pattern appends
SessionScanFile(e) ==
    IF CanRead(e)
    THEN FlatMap(LAMBDA p : IF Search(p.re, e)
                            THEN <<Finding(p.desc, e.path, 0)>> ELSE <<>>,
                 session_violations)
    ELSE <<>>

Factor6Sessions(t, r) ==
    [r EXCEPT !.violations = @ \o FlatMap(SessionScanFile, RglobSuffix(t, ".js"))]

fs_patterns ==
    <<Pattern("fs.write", "Writing to non-temp filesystem"),
      Pattern("File.open...'w'", "File write operations detected")>>

\* the try block for one pattern and one file of the sample
FsScanFile(p, e) ==
    IF CanRead(e) /\ Search(p.re, e)
    THEN <<Finding(p.desc, e.name, 0)>> ELSE <<>>

Factor6Fs(t, r) ==
    [r EXCEPT !.warnings =
        @ \o FlatMap(LAMBDA p :
                         FlatMap(LAMBDA e : FsScanFile(p, e),
                                 Prefix(RglobSuffix(t, ".js"), FsSampleLimit)),
                     fs_patterns)]

Factor6(t, r) == Factor6Fs(t, Factor6Sessions(t, r))

(***************************************************************************)
(* Factor VII: Port binding                                                *)
(***************************************************************************)
server_patterns ==
    <<Pattern("app.listen(...process.env.PORT", "Express.js with PORT env var"),
      Pattern("http.createServer...listen(...process.env.PORT", "Node.js HTTP server"),
      Pattern("port = os.environ.get('PORT", "Python PORT configuration"),
      Pattern("Rails.application.config.port", "Rails port configuration")>>

\* file.is_file() and file.suffix in [".js", ".py", ".rb"]
IsServerSource(e) == e.isFile /\ e.suffix \in {".js", ".py", ".rb"}

\* the try block: re.search(pattern, file.read_text()) is true
PortMatch(p, e) == CanRead(e) /\ Search(p.re, e)

\* the inner loop "for file in rglob('*')" of one pattern: the first matching
\* file appends a pass and breaks; the break leaves this inner loop only
RECURSIVE PortScanFiles(_, _)
PortScanFiles(fs, p) ==
    IF fs = <<>> THEN <<>>
    ELSE IF IsServerSource(Head(fs)) /\ PortMatch(p, Head(fs))
    THEN <<Finding(p.desc, "", 0)>>
    ELSE PortScanFiles(Tail(fs), p)

\* one round of the outer loop "for pattern, desc in server_patterns"
PortScanPattern(t, p) == PortScanFiles(t, p)

PortPasses(t) == FlatMap(LAMBDA p : PortScanPattern(t, p), server_patterns)

\* port_binding_found after the loops
port_binding_found(t) == PortPasses(t) # <<>>

Factor7Scan(t, r) ==
    LET r1 == [r EXCEPT !.passes = @ \o PortPasses(t)] IN
    IF ~port_binding_found(t)
    THEN AddWarning(r1, Msg("No PORT environment variable usage detected"))
    ELSE r1

Factor7War(t, r) ==
    IF RglobSuffix(t, ".war") # <<>>
    THEN AddViolation(r, Msg("WAR files suggest server container dependency"))
    ELSE r

Factor7(t, r) == Factor7War(t, Factor7Scan(t, r))

(***************************************************************************)
(* Factor VIII: Concurrency.  Procfile's read_text() is not inside a try   *)
(* block; the read and the parse of docker-compose.yml are.                *)
(***************************************************************************)
Factor8Raises(t) ==
    IF Exists(t, "Procfile") /\ ~CanRead(At(t, "Procfile"))
    THEN ReadError(At(t, "Procfile"))
    ELSE NoException

\* the statements up to the read of Procfile
Factor8Procfile(t, r) ==
    IF Exists(t, "Procfile")
    THEN AddPass(r, Msg("Procfile defines process types"))
    ELSE AddWarning(r, Msg("No Procfile found"))

\* yaml.safe_load(compose_file.read_text()) returns a mapping with the key
\* "services" whose value has more than one element; any exception on the
\* way (read, parse, None, no len) is swallowed
MultipleServices(e) ==
    /\ CanRead(e)
    /\ e.parse = "ok"
    /\ Search("services", e)
    /\ Len(e.doc) > 1

\* the statements after a read of Procfile that did not raise
Factor8Rest(t, r) ==
    LET r1 == IF /\ Exists(t, "Procfile")
                 /\ Search("web:", At(t, "Procfile"))
                 /\ Search("worker:", At(t, "Procfile"))
              THEN AddPass(r, Msg("Multiple process types defined"))
              ELSE r
    IN IF /\ Exists(t, "docker-compose.yml")
          /\ MultipleServices(At(t, "docker-compose.yml"))
       THEN AddPass(r1, Msg("Multiple services in docker-compose"))
       ELSE r1

Factor8(t, r) ==
    IF Factor8Raises(t) # NoException
    THEN Factor8Procfile(t, r)
    ELSE Factor8Rest(t, Factor8Procfile(t, r))

(***************************************************************************)
(* Factor IX: Disposability                                                *)
(***************************************************************************)
shutdown_patterns ==
    <<Pattern("process.on('SIGTERM", "SIGTERM handler (Node.js)"),
      Pattern("signal.signal(signal.SIGTERM", "SIGTERM handler (Python)"),
      Pattern("trap...TERM", "SIGTERM trap (Shell)")>>

\* the try block: re.search(pattern, file.read_text()) is true
ShutdownMatch(p, e) == CanRead(e) /\ Search(p.re, e)

\* the inner loop "for file in rglob('*')" of one pattern: the first matching
\* file appends a pass and breaks; the break leaves this inner loop only
RECURSIVE ShutdownScanFiles(_, _)
ShutdownScanFiles(fs, p) ==
    IF fs = <<>> THEN <<>>
    ELSE IF Head(fs).isFile /\ ShutdownMatch(p, Head(fs))
    THEN <<Finding(p.desc, "", 0)>>
    ELSE ShutdownScanFiles(Tail(fs), p)

\* one round of the outer loop "for pattern, desc in shutdown_patterns"
ShutdownScanPattern(t, p) == ShutdownScanFiles(t, p)

ShutdownPasses(t) == FlatMap(LAMBDA p : ShutdownScanPattern(t, p), shutdown_patterns)

graceful_shutdown(t) == ShutdownPasses(t) # <<>>

Factor9(t, r) ==
    LET r1 == [r EXCEPT !.passes = @ \o ShutdownPasses(t)] IN
    IF ~graceful_shutdown(t)
    THEN AddWarning(r1, Msg("No graceful shutdown handlers detected"))
    ELSE r1

(***************************************************************************)
(* Factor X: Dev/prod parity                                               *)
(***************************************************************************)
Factor10Docker(t, r) ==
    IF Exists(t, "Dockerfile") /\ Exists(t, "docker-compose.yml")
    THEN AddPass(r, Msg("Docker used for environment consistency"))
    ELSE r

Factor10DevDeps(t, r) ==
    IF Exists(t, "requirements-dev.txt") \/ Exists(t, "package-dev.json")
    THEN AddWarning(r, Msg("Separate dev dependencies might indicate divergence"))
    ELSE r

Factor10(t, r) == Factor10DevDeps(t, Factor10Docker(t, r))

(***************************************************************************)
(* Factor XI: Logs                                                         *)
(***************************************************************************)
log_file_patterns ==
    <<Pattern("FileHandler|RotatingFileHandler", "File-based logging (Python)"),
      Pattern("winston...filename:", "File-based logging (Node.js)"),
      Pattern("log4j...FileAppender", "File-based logging (Java)")>>

\* file.is_file() and file.suffix in [".py", ".js", ".java"]
IsLogSource(e) == e.isFile /\ e.suffix \in {".py", ".js", ".java"}

\* the body of the inner loop for one pattern and one file: no break
LogScanFile(p, e) ==
    IF IsLogSource(e) /\ CanRead(e) /\ Search(p.re, e)
    THEN <<Finding(p.desc, e.name, 0)>>
    ELSE <<>>

\* LogViolations with a break after the first matching file of a pattern
LogViolationsFirstMatch(t) ==
    FlatMap(LAMBDA p : Prefix(FlatMap(LAMBDA e : LogScanFile(p, e), t), 1),
            log_file_patterns)

LogViolations(t) ==
    FlatMap(LAMBDA p : FlatMap(LAMBDA e : LogScanFile(p, e), t), log_file_patterns)

Factor11Files(t, r) == [r EXCEPT !.violations = @ \o LogViolations(t)]

stdout_patterns ==
    <<Pattern("console.log|console.error", "Console logging (Node.js)"),
      Pattern("print(|logging.StreamHandler", "stdout logging (Python)"),
      Pattern("System.out.println", "stdout logging (Java)")>>

\* list(self.project_path.rglob("*"))[:20]
StdoutSampleLimit == 20

stdout_found(t) ==
    LET sample == Prefix(t, StdoutSampleLimit) IN
    \E i \in 1..Len(stdout_patterns), j \in 1..Len(sample) :
        /\ sample[j].isFile
        /\ CanRead(sample[j])
        /\ Search(stdout_patterns[i].re, sample[j])

Factor11Stdout(t, r) ==
    IF stdout_found(t)
    THEN AddPass(r, Msg("stdout/console logging detected"))
    ELSE r

Factor11(t, r) == Factor11Stdout(t, Factor11Files(t, r))

(***************************************************************************)
(* Factor XII: Admin processes                                             *)
(***************************************************************************)
admin_dirs == <<"scripts", "bin", "tasks", "management">>

migration_patterns == <<"migrations", "db/migrate", "alembic">>

Factor12Admin(t, r) ==
    IF \E i \in 1..Len(admin_dirs) : Exists(t, admin_dirs[i])
    THEN AddPass(r, Msg("Admin scripts directory found"))
    ELSE r

Factor12Migrations(t, r) ==
    IF \E i \in 1..Len(migration_patterns) : Exists(t, migration_patterns[i])
    THEN AddPass(r, Msg("Database migration structure found"))
    ELSE r

Factor12(t, r) == Factor12Migrations(t, Factor12Admin(t, r))

(***************************************************************************)
(* validate_all's return value and generate_report                         *)
(***************************************************************************)
\* len(passes) / (len(passes) + len(violations)) * 100 as the exact fraction
\* num / den; the division raises ZeroDivisionError when den = 0
\* Score with the warnings counted in the denominator
ScoreOverAllFindings(r) ==
    [num |-> Len(r.passes) * 100,
     den |-> Len(r.passes) + Len(r.warnings) + Len(r.violations)]

Score(r) ==
    [num |-> Len(r.passes) * 100, den |-> Len(r.passes) + Len(r.violations)]

NoScore == [num |-> 0, den |-> 0]

\* results['score'] < n
ScoreBelow(sc, n) == sc.num < n * sc.den

\* a line of standard output: what it is, and the finding it prints
Line(tag, f) == [tag |-> tag, finding |-> f]

Banner(tag) == Line(tag, Msg(""))

Items(fs) == FlatMap(LAMBDA f : <<Line("item", f)>>, fs)

\* "if results[bucket]: print(header); for x in results[bucket]: print(x)"
Bucket(header, fs) == IF fs # <<>> THEN <<Banner(header)>> \o Items(fs) ELSE <<>>

\* Recommendation with the thresholds compared by <=
RecommendationInclusive(sc) ==
    IF ~ScoreBelow(sc, 50) /\ sc.num # 50 * sc.den
    THEN IF ~ScoreBelow(sc, 80) /\ sc.num # 80 * sc.den
         THEN "Good: Review warnings for optimization opportunities"
         ELSE "Moderate: Fix violations and review warnings"
    ELSE "Critical: Address violations before deployment"

Recommendation(sc) ==
    IF ScoreBelow(sc, 50)
    THEN "Critical: Address violations before deployment"
    ELSE IF ScoreBelow(sc, 80)
    THEN "Moderate: Fix violations and review warnings"
    ELSE "Good: Review warnings for optimization opportunities"

\* the lines generate_report prints (the rendering of the score as text is
\* not modelled)
ReportLines(r, sc) ==
    <<Banner("12-FACTOR VALIDATION REPORT"), Banner("Score")>>
    \o Bucket("PASSES", r.passes)
    \o Bucket("WARNINGS", r.warnings)
    \o Bucket("VIOLATIONS", r.violations)
    \o <<Banner("RECOMMENDATIONS"), Line("recommendation", Msg(Recommendation(sc)))>>

(***************************************************************************)
(* The project trees the model is run on.  An item is a file or directory  *)
(* of the project, with the directory that holds it where it is nested; a  *)
(* small tree is assembled from at most MaxItems items of Universe, a bulk *)
(* tree from up to MaxFill generated source files followed by at most one  *)
(* source item.                                                            *)
(***************************************************************************)
Nested(dir, name, suffix, tokens) ==
    <<Dir(dir),
      Entry(dir \o "/" \o name, dir, name, suffix, TRUE, "ok", tokens, "ok", <<>>)>>

AppPyTokens ==
    {"(password|secret|key|token)=...", "[A-Z_]+=...", "os.environ", "DATABASE_URL",
     "port = os.environ.get('PORT", "signal.signal(signal.SIGTERM",
     "FileHandler|RotatingFileHandler", "print(|logging.StreamHandler"}

WorkerPyTokens ==
    {"os.environ", "FileHandler|RotatingFileHandler", "log4j...FileAppender",
     "(localhost|127.0.0.1):port"}

ServerJsTokens ==
    {"(localhost|127.0.0.1):port", "https?://host.(com|org|net)", "session[..]=",
     "sticky.?session", "fs.write", "app.listen(...process.env.PORT",
     "http.createServer...listen(...process.env.PORT", "process.on('SIGTERM",
     "winston...filename:", "console.log|console.error"}

SourceItems ==
    <<<<File("app.py", ".py", AppPyTokens)>>,
      <<BadFile("app.py", ".py", "binary", AppPyTokens)>>,
      <<File("worker.py", ".py", WorkerPyTokens)>>,
      <<File("server.js", ".js", ServerJsTokens)>>,
      <<File("server.js", ".js", {"app.listen(...process.env.PORT", "fs.write"})>>,
      <<BadFile("server.js", ".js", "denied", ServerJsTokens)>>,
      <<DirWithSuffix("vendor.js", ".js")>>,
      <<File("Main.java", ".java",
             {"log4j...FileAppender", "System.out.println",
              "https?://host.(com|org|net)"})>>,
      <<File("app.rb", ".rb", {"Rails.application.config.port", "[A-Z_]+=..."})>>,
      <<File("run.sh", ".sh", {"trap...TERM"})>>>>

OtherItems ==
    <<<<Dir(".git")>>,
      <<File(".gitignore", "", {})>>,
      <<Doc("requirements.txt", ".txt", "ok",
            <<<<"flask", "==", "2.0.1">>, <<"#", "pinned">>, <<>>, <<" ">>>>)>>,
      <<Doc("requirements.txt", ".txt", "ok",
            <<<<"flask", "==", "2.0.1">>, <<"requests", ">=", "2.0">>,
              <<"-", "r", " ", "base.txt">>, <<" ", "#", "note">>,
              <<" ", "gunicorn", " ">>>>)>>,
      <<BadFile("requirements.txt", ".txt", "binary", {})>>,
      <<Doc("package.json", ".json", "ok", <<<<"1.2.3">>, <<"4.17.21">>>>)>>,
      <<Doc("package.json", ".json", "ok",
            <<<<"^", "1.2.3">>, <<"1.0.0">>, <<"*">>, <<"~", "2.1">>>>)>>,
      <<Doc("package.json", ".json", "error", <<>>)>>,
      <<File("Pipfile", "", {})>>,
      <<File("go.mod", ".mod", {})>>,
      <<File("package-lock.json", ".json", {})>>,
      <<File(".env.example", ".example", {})>>,
      <<File("Dockerfile", "", {"COPY", "RUN", "trap...TERM"})>>,
      <<BadFile("Dockerfile", "", "binary", {"COPY", "RUN"})>>,
      <<Dir("Dockerfile")>>,
      <<File("Procfile", "", {"web:", "worker:"})>>,
      <<BadFile("Procfile", "", "denied", {"web:", "worker:"})>>,
      <<Entry("docker-compose.yml", "", "docker-compose.yml", ".yml", TRUE, "ok",
              {"services"}, "ok", <<<<"web">>, <<"db">>>>)>>,
      <<Doc("docker-compose.yml", ".yml", "null", <<>>)>>,
      <<File("app.war", ".war", {})>>,
      <<Dir("scripts")>>,
      <<Dir("migrations")>>,
      Nested("svc", "package.json", ".json", {}),
      <<File("requirements-dev.txt", ".txt", {})>>,
      <<File("Jenkinsfile", "", {})>>,
      Nested("config", "production.json", ".json", {})>>

Universe == SourceItems \o OtherItems

\* no two entries of a directory tree have the same path
DistinctPaths(t) == \A i, j \in 1..Len(t) : t[i].path = t[j].path => i = j

\* the items of Universe at the indices of S, in traversal order
RECURSIVE Pick(_, _)
Pick(S, i) ==
    IF i > Len(Universe) THEN <<>>
    ELSE (IF i \in S THEN <<Universe[i]>> ELSE <<>>) \o Pick(S, i + 1)

\* the subsets of 1..n with at most k elements
RECURSIVE IndexSets(_, _)
IndexSets(n, k) ==
    IF n = 0 \/ k = 0 THEN {{}}
    ELSE IndexSets(n - 1, k) \cup {S \cup {n} : S \in IndexSets(n - 1, k - 1)}

SmallTrees ==
    LET chosen == {Pick(S, 1) : S \in IndexSets(Len(Universe), MaxItems)}
        trees == {Concat(c) : c \in chosen} \cup {Concat(Reverse(c)) : c \in chosen}
    IN {t \in trees : DistinctPaths(t)}

\* the generated source files of a bulk tree
FillKinds ==
    {[suffix |-> ".py", tokens |-> {"(localhost|127.0.0.1):port", "[A-Z_]+=...",
                                    "FileHandler|RotatingFileHandler"}],
     [suffix |-> ".js", tokens |-> {"fs.write", "https?://host.(com|org|net)",
                                    "[A-Z_]+=..."}],
     [suffix |-> ".py", tokens |-> {}]}

FillFile(k, i) ==
    File("m" \o ToString(i) \o k.suffix, k.suffix, k.tokens)

Fill(k, n) == [i \in 1..n |-> FillFile(k, i)]

BulkTrees ==
    {Fill(k, n) \o tail :
        k \in FillKinds, n \in 1..MaxFill,
        tail \in {<<>>} \cup Range(SourceItems)}

Trees == SmallTrees \cup BulkTrees

(***************************************************************************)
(* The state machine: the __main__ block, validate_all one check at a      *)
(* time, generate_report, and the end of the process.                      *)
(*   argv        sys.argv                                                  *)
(*   pathExists  os.path.exists(sys.argv[1])                               *)
(*   tree        the directory tree below the project path                 *)
(*   pc          the statement the process is at                           *)
(*   validator   whether TwelveFactorValidator(project_path) was built     *)
(*   passes, warnings, violations   the validator's collections            *)
(*   score       results["score"], NoScore before validate_all returns     *)
(*   out         the lines printed to standard output                      *)
(*   exc         the exception that left the program uncaught, if any      *)
(*   exitStatus  <<>> while running, <<status>> once the process ended     *)
(***************************************************************************)
Current == Results(passes, warnings, violations)

Store(r) ==
    /\ passes' = r.passes
    /\ warnings' = r.warnings
    /\ violations' = r.violations

Init ==
    /\ argv \in {<<"twelve-factor-validator.py">>,
                 <<"twelve-factor-validator.py", "project">>}
    /\ pathExists \in BOOLEAN
    /\ tree \in Trees
    /\ (Len(argv) < 2 => ~pathExists)
    /\ (~pathExists => tree = <<>>)
    /\ pc = "main"
    /\ validator = FALSE
    /\ passes = <<>>
    /\ warnings = <<>>
    /\ violations = <<>>
    /\ score = NoScore
    /\ out = <<>>
    /\ exc = NoException
    /\ exitStatus = <<>>

\* if len(sys.argv) < 2: print usage; sys.exit(1)
MainUsage ==
    /\ pc = "main"
    /\ Len(argv) < 2
    /\ out' = Append(out, Banner("Usage"))
    /\ exitStatus' = <<1>>
    /\ pc' = "exited"
    /\ UNCHANGED <<argv, pathExists, tree, validator, passes, warnings,
                   violations, score, exc>>

\* if not os.path.exists(project_path): print error; sys.exit(1)
MainNoPath ==
    /\ pc = "main"
    /\ Len(argv) >= 2
    /\ ~pathExists
    /\ out' = Append(out, Banner("Error: Path does not exist"))
    /\ exitStatus' = <<1>>
    /\ pc' = "exited"
    /\ UNCHANGED <<argv, pathExists, tree, validator, passes, warnings,
                   violations, score, exc>>

\* validator = TwelveFactorValidator(project_path)
MainConstruct ==
    /\ pc = "main"
    /\ Len(argv) >= 2
    /\ pathExists
    /\ validator' = TRUE
    /\ Store(Results(<<>>, <<>>, <<>>))
    /\ pc' = "validate_all"
    /\ UNCHANGED <<argv, pathExists, tree, score, out, exc, exitStatus>>

\* validate_all up to its first check
ValidateAllBegin ==
    /\ pc = "validate_all"
    /\ out' = Append(out, Banner("Starting 12-Factor Validation"))
    /\ pc' = "f1"
    /\ UNCHANGED <<argv, pathExists, tree, validator, passes, warnings,
                   violations, score, exc, exitStatus>>

\* a check method that returns: it prints its banner, appends its findings
\* and validate_all goes on to the next statement
Returns(at, banner, r, next) ==
    /\ pc = at
    /\ out' = Append(out, Banner(banner))
    /\ Store(r)
    /\ pc' = next
    /\ UNCHANGED <<argv, pathExists, tree, validator, score, exc, exitStatus>>

\* a check method that an exception may leave: nothing catches it, so it
\* ends the process with a traceback and status 1
MayRaise(at, banner, r, raised, next) ==
    /\ pc = at
    /\ out' = Append(out, Banner(banner))
    /\ Store(r)
    /\ exc' = raised
    /\ pc' = IF raised # NoException THEN "exited" ELSE next
    /\ exitStatus' = IF raised # NoException THEN <<1>> ELSE exitStatus
    /\ UNCHANGED <<argv, pathExists, tree, validator, score>>

check_factor_1_codebase ==
    Returns("f1", "Factor I: Codebase", Factor1(tree, Current), "f2")

check_factor_2_dependencies ==
    Returns("f2", "Factor II: Dependencies", Factor2(tree, Current), "f3")

check_factor_3_config ==
    Returns("f3", "Factor III: Config", Factor3(tree, Current), "f4")

check_factor_4_backing_services ==
    Returns("f4", "Factor IV: Backing Services", Factor4(tree, Current), "f5")

check_factor_5_build_release_run ==
    MayRaise("f5", "Factor V: Build, Release, Run", Factor5(tree, Current),
             Factor5Raises(tree), "f6")

check_factor_6_processes ==
    Returns("f6", "Factor VI: Processes", Factor6(tree, Current), "f7")

check_factor_7_port_binding ==
    Returns("f7", "Factor VII: Port Binding", Factor7(tree, Current), "f8")

check_factor_8_concurrency ==
    MayRaise("f8", "Factor VIII: Concurrency", Factor8(tree, Current),
             Factor8Raises(tree), "f9")

check_factor_9_disposability ==
    Returns("f9", "Factor IX: Disposability", Factor9(tree, Current), "f10")

check_factor_10_dev_prod_parity ==
    Returns("f10", "Factor X: Dev/Prod Parity", Factor10(tree, Current), "f11")

check_factor_11_logs ==
    Returns("f11", "Factor XI: Logs", Factor11(tree, Current), "f12")

check_factor_12_admin_processes ==
    Returns("f12", "Factor XII: Admin Processes", Factor12(tree, Current), "return")

\* the return statement of validate_all: the score's division raises
\* ZeroDivisionError when both collections are empty
ValidateAllReturn ==
    /\ pc = "return"
    /\ score' = IF Score(Current).den = 0 THEN NoScore ELSE Score(Current)
    /\ exc' = IF Score(Current).den = 0 THEN "ZeroDivisionError" ELSE NoException
    /\ pc' = IF Score(Current).den = 0 THEN "exited" ELSE "generate_report"
    /\ exitStatus' = IF Score(Current).den = 0 THEN <<1>> ELSE exitStatus
    /\ UNCHANGED <<argv, pathExists, tree, validator, passes, warnings,
                   violations, out>>

generate_report ==
    /\ pc = "generate_report"
    /\ out' = out \o ReportLines(Current, score)
    /\ pc' = "end"
    /\ UNCHANGED <<argv, pathExists, tree, validator, passes, warnings,
                   violations, score, exc, exitStatus>>

\* the script runs off its end: the interpreter exits with status 0
MainEnd ==
    /\ pc = "end"
    /\ exitStatus' = <<0>>
    /\ pc' = "exited"
    /\ UNCHANGED <<argv, pathExists, tree, validator, passes, warnings,
                   violations, score, out, exc>>

Next ==
    \/ MainUsage
    \/ MainNoPath
    \/ MainConstruct
    \/ ValidateAllBegin
    \/ check_factor_1_codebase
    \/ check_factor_2_dependencies
    \/ check_factor_3_config
    \/ check_factor_4_backing_services
    \/ check_factor_5_build_release_run
    \/ check_factor_6_processes
    \/ check_factor_7_port_binding
    \/ check_factor_8_concurrency
    \/ check_factor_9_disposability
    \/ check_factor_10_dev_prod_parity
    \/ check_factor_11_logs
    \/ check_factor_12_admin_processes
    \/ ValidateAllReturn
    \/ generate_report
    \/ MainEnd

Spec == Init /\ [][Next]_vars

(***************************************************************************)
(* Vocabulary of the properties.                                           *)
(***************************************************************************)
\* the check with this banner has run
Ran(banner) == \E i \in 1..Len(out) : out[i] = Banner(banner)

\* the banners of the checks that have run, in the order they ran
CheckBanners ==
    <<"Factor I: Codebase", "Factor II: Dependencies", "Factor III: Config",
      "Factor IV: Backing Services", "Factor V: Build, Release, Run",
      "Factor VI: Processes", "Factor VII: Port Binding",
      "Factor VIII: Concurrency", "Factor IX: Disposability",
      "Factor X: Dev/Prod Parity", "Factor XI: Logs",
      "Factor XII: Admin Processes">>

ChecksRun ==
    FlatMap(LAMBDA l : IF l.tag \in Range(CheckBanners) THEN <<l.tag>> ELSE <<>>, out)

\* how many findings of the sequence fs satisfy Test
CountIn(fs, Test(_)) == Cardinality({i \in 1..Len(fs) : Test(fs[i])})

Descs(ps) == {ps[i].desc : i \in 1..Len(ps)}

\* validate_all has returned its result
Returned == pc \in {"generate_report", "end"} \/ (pc = "exited" /\ exitStatus = <<0>>)

(***************************************************************************)
(* C1: once validation begins there is no fatal error path: for every      *)
(* existing project tree validate_all runs all twelve checks in order,     *)
(* never raises, and returns a result with a score.                        *)
(* Refuted: an unreadable Dockerfile or Procfile raises out of its check.  *)
(***************************************************************************)
C1_NoFatalErrorPath ==
    /\ exc = NoException
    /\ (validator /\ pc = "exited") =>
           (ChecksRun = CheckBanners /\ score # NoScore)

(***************************************************************************)
(* C2: the score validate_all returns equals passes / (passes +            *)
(* violations) * 100 over the final lengths of the collections after all   *)
(* twelve checks; warnings do not enter it; it lies within 0..100.         *)
(***************************************************************************)
C2_ScoreFormula ==
    Returned =>
        /\ ChecksRun = CheckBanners
        /\ score.den = Len(passes) + Len(violations)
        /\ score.den > 0
        /\ score.num = 100 * Len(passes)
        /\ 0 <= score.num
        /\ score.num <= 100 * score.den

C2_Witness ==
    /\ Returned
    /\ Len(passes) >= 2
    /\ Len(violations) >= 2
    /\ Len(warnings) >= 3
    /\ Len(warnings) # Len(violations)

(***************************************************************************)
(* C3: the scans of the port-binding check (factor 7) and of the           *)
(* disposability check (factor 9) stop at the first match: each appends    *)
(* exactly one finding per run, a single pass if anything matches and a    *)
(* single warning otherwise, never more than one pass.                     *)
(* Refuted: the break leaves the loop over the files only, so every        *)
(* pattern that matches somewhere appends its own pass.                    *)
(***************************************************************************)
PortFindings ==
    CountIn(passes, LAMBDA f : f.desc \in Descs(server_patterns))
    + CountIn(warnings,
              LAMBDA f : f = Msg("No PORT environment variable usage detected"))

ShutdownFindings ==
    CountIn(passes, LAMBDA f : f.desc \in Descs(shutdown_patterns))
    + CountIn(warnings,
              LAMBDA f : f = Msg("No graceful shutdown handlers detected"))

C3_OneFindingPerScan ==
    /\ Ran("Factor VII: Port Binding") => PortFindings = 1
    /\ Ran("Factor IX: Disposability") => ShutdownFindings = 1

(***************************************************************************)
(* C4: in the Config check every file of the sample (the first 20 of the   *)
(* matched .py/.js/.java/.rb files) contributes at most one                *)
(* suspicious-pattern warning, the one of the first of the four patterns   *)
(* that matches it, naming the file; files beyond the 20th contribute      *)
(* none.                                                                   *)
(***************************************************************************)
\* the suspicious-pattern warnings that name the file e
ConfigWarningsOf(e) ==
    SelectSeq(warnings,
              LAMBDA f : f.desc \in Descs(suspicious_patterns) /\ f.file = e.path)

\* the indices of the suspicious patterns that occur in the text of e
SuspiciousIn(e) ==
    {j \in 1..Len(suspicious_patterns) : suspicious_patterns[j].re \in e.tokens}

FirstSuspiciousDesc(e) ==
    suspicious_patterns[CHOOSE j \in SuspiciousIn(e) :
                            \A k \in SuspiciousIn(e) : j <= k].desc

C4_ConfigOneWarningPerSampledFile ==
    Ran("Factor III: Config") =>
        \A i \in 1..Len(code_files(tree)) :
            LET e == code_files(tree)[i] IN
            IF i <= 20 /\ e.isFile /\ e.read = "ok" /\ SuspiciousIn(e) # {}
            THEN ConfigWarningsOf(e) = <<Finding(FirstSuspiciousDesc(e), e.path, 0)>>
            ELSE ConfigWarningsOf(e) = <<>>

C4_Witness ==
    /\ Ran("Factor III: Config")
    /\ Len(code_files(tree)) > 20
    /\ Cardinality(SuspiciousIn(code_files(tree)[21])) >= 2
    /\ code_files(tree)[21].read = "ok"
    /\ Cardinality(SuspiciousIn(code_files(tree)[20])) >= 2
    /\ Len(ConfigWarningsOf(code_files(tree)[20])) = 1

(***************************************************************************)
(* C5: the Logs check neither short-circuits nor deduplicates: the number  *)
(* of file-based-logging violations it appends is the number of pairs      *)
(* (pattern, file) where the file has suffix .py, .js or .java, is         *)
(* readable and matches the pattern.                                       *)
(***************************************************************************)
LogMatches ==
    {<<j, i>> \in (1..Len(log_file_patterns)) \X (1..Len(tree)) :
        /\ tree[i].suffix \in {".py", ".js", ".java"}
        /\ tree[i].isFile
        /\ tree[i].read = "ok"
        /\ log_file_patterns[j].re \in tree[i].tokens}

C5_LogsViolationPerMatch ==
    Ran("Factor XI: Logs") =>
        /\ CountIn(violations, LAMBDA f : f.desc \in Descs(log_file_patterns))
               = Cardinality(LogMatches)
        /\ \A m \in LogMatches :
               \E k \in 1..Len(violations) :
                   violations[k] =
                       Finding(log_file_patterns[m[1]].desc, tree[m[2]].name, 0)

\* one file matches two patterns and another file matches one of them too
C5_Witness ==
    /\ Ran("Factor XI: Logs")
    /\ \E m1, m2, m3 \in LogMatches :
           /\ m1[2] = m2[2] /\ m1[1] # m2[1]
           /\ m3[1] = m1[1] /\ m3[2] # m1[2]

(***************************************************************************)
(* C6: validate_all on an empty project directory yields no passes,        *)
(* exactly two violations (no Git repository, then no dependency           *)
(* manifest), otherwise only warnings about something absent, and score 0. *)
(***************************************************************************)
AbsenceWarnings ==
    {Msg("No .gitignore file"),
     Msg("No lock file found - exact versions not guaranteed"),
     Msg("No .env.example file documenting required variables"),
     Msg("No backing service environment variables detected"),
     Msg("No Dockerfile found"),
     Msg("No PORT environment variable usage detected"),
     Msg("No Procfile found"),
     Msg("No graceful shutdown handlers detected")}

C6_EmptyDirectory ==
    (Returned /\ tree = <<>>) =>
        /\ passes = <<>>
        /\ violations = <<Msg("No Git repository found"),
                          Msg("No dependency manifest found")>>
        /\ Range(warnings) \subseteq AbsenceWarnings
        /\ score.num = 0
        /\ score.den = 2

C6_Witness == Returned /\ tree = <<>> /\ pc = "generate_report"

(***************************************************************************)
(* Vocabulary of the Dependencies properties.                              *)
(***************************************************************************)
\* the finding messages of the sub-check of each manifest
ManifestPass(m) ==
    CASE m = "package.json" -> "All npm dependencies have exact versions"
      [] m = "requirements.txt" -> "All Python dependencies have exact versions"
      [] m = "Pipfile" -> "Pipenv used for dependency management"
      [] m = "Gemfile" -> "Gemfile present for dependency management"
      [] m = "pom.xml" -> "Maven pom.xml present for dependency management"
      [] m = "build.gradle" -> "Gradle build file present for dependency management"
      [] m = "go.mod" -> "Go modules used for dependency management"

ManifestWarning(m) ==
    CASE m = "package.json" -> "dependencies with fuzzy versions"
      [] m = "requirements.txt" -> "Python dependencies without exact versions"
      [] OTHER -> "(none)"

ManifestPasses(m) == SelectSeq(passes, LAMBDA f : f.desc = ManifestPass(m))

ManifestWarnings(m) == SelectSeq(warnings, LAMBDA f : f.desc = ManifestWarning(m))

\* how many versions / requirement lines of the manifest are not exact
FuzzyCount(e) ==
    Cardinality({i \in 1..Len(e.doc) : Range(e.doc[i]) \cap {"^", "~", "*"} # {}})

UnpinnedCount(e) ==
    Cardinality({i \in 1..Len(e.doc) :
                    /\ Range(e.doc[i]) \ {" "} # {}
                    /\ e.doc[i][1] # "#"
                    /\ "==" \notin Range(e.doc[i])
                    /\ \E k \in 1..Len(e.doc[i]) :
                           /\ e.doc[i][k] \notin {" ", "-"}
                           /\ \A h \in 1..(k - 1) : e.doc[i][h] = " "})

InexactCount(m, e) == IF m = "package.json" THEN FuzzyCount(e) ELSE UnpinnedCount(e)

\* the manifest is read and parsed without an exception
Loads(m, e) ==
    /\ e.isFile
    /\ e.read = "ok"
    /\ m = "package.json" => e.parse = "ok"

ViolationIffNoManifest ==
    (\E k \in 1..Len(violations) : violations[k] = Msg("No dependency manifest found"))
    <=> (\A i \in 1..Len(manifests) : ~Exists(tree, manifests[i]))

Blanked(t) ==
    [i \in 1..Len(t) |->
        IF t[i].isFile /\ t[i].read = "ok" THEN t[i]
        ELSE [t[i] EXCEPT !.isFile = TRUE, !.read = "ok", !.tokens = {}]]

After == Results(passes', warnings', violations')

C8_ReadFailureSkipsFile ==
    [][/\ pc = "f3" => After = Factor3(Blanked(tree), Current)
       /\ pc = "f4" => After = Factor4(Blanked(tree), Current)
       /\ pc = "f6" => After = Factor6(Blanked(tree), Current)
       /\ pc = "f7" => After = Factor7(Blanked(tree), Current)
       /\ pc = "f9" => After = Factor9(Blanked(tree), Current)
       /\ pc = "f11" => After = Factor11(Blanked(tree), Current)]_vars

\* a file whose read fails, with bytes that would match, was scanned before
\* a readable file whose log violation was recorded
C8_Witness ==
    /\ Ran("Factor XI: Logs")
    /\ \E i, j \in 1..Len(tree) :
           /\ i < j
           /\ tree[i].isFile
           /\ tree[i].read # "ok"
           /\ tree[i].suffix \in {".py", ".js"}
           /\ tree[i].tokens # {}
           /\ \E k \in 1..Len(violations) :
                  /\ violations[k].desc \in Descs(log_file_patterns)
                  /\ violations[k].file = tree[j].name

(***************************************************************************)
(* C9: the command-line driver runs no check on an error path: with a      *)
(* missing argument or a path that does not exist it prints one message    *)
(* and exits non-zero before a validator is constructed or a check runs;   *)
(* otherwise it runs validate_all, then generate_report, and exits with    *)
(* status zero however many violations were found.                         *)
(* Refuted through C1: an exception out of a check ends the process with   *)
(* a non-zero status and without a report.                                 *)
(***************************************************************************)
ReportPrinted == Ran("12-FACTOR VALIDATION REPORT")

C9_DriverPaths ==
    pc = "exited" =>
        IF Len(argv) < 2 \/ ~pathExists
        THEN /\ exitStatus # <<0>>
             /\ ~validator
             /\ ChecksRun = <<>>
             /\ Len(out) = 1
        ELSE /\ exitStatus = <<0>>
             /\ ChecksRun = CheckBanners
             /\ ReportPrinted

(***************************************************************************)
(* C10: the reporter prints exactly one recommendation, chosen by the      *)
(* score alone: critical below 50, moderate from 50 and below 80, good     *)
(* from 80; it prints the passes, warnings and violations buckets in that  *)
(* order, each only when it is not empty.                                  *)
(***************************************************************************)
\* the report: the lines of out from the report's title on
Report ==
    LET first == CHOOSE i \in 1..Len(out) :
                     out[i] = Banner("12-FACTOR VALIDATION REPORT")
    IN SubSeq(out, first, Len(out))

Tagged(ls, tags) == SelectSeq(ls, LAMBDA l : l.tag \in tags)

ExpectedRecommendation ==
    IF score.num < 50 * score.den
    THEN "Critical: Address violations before deployment"
    ELSE IF score.num < 80 * score.den
    THEN "Moderate: Fix violations and review warnings"
    ELSE "Good: Review warnings for optimization opportunities"

ExpectedHeaders ==
    (IF passes # <<>> THEN <<Banner("PASSES")>> ELSE <<>>)
    \o (IF warnings # <<>> THEN <<Banner("WARNINGS")>> ELSE <<>>)
    \o (IF violations # <<>> THEN <<Banner("VIOLATIONS")>> ELSE <<>>)

C10_ReportLayout ==
    ReportPrinted =>
        /\ Tagged(Report, {"recommendation"})
               = <<Line("recommendation", Msg(ExpectedRecommendation))>>
        /\ Tagged(Report, {"PASSES", "WARNINGS", "VIOLATIONS"}) = ExpectedHeaders
        /\ Tagged(Report, {"item"}) = Items(passes \o warnings \o violations)

\* a report was printed for a score of exactly 50 with an empty bucket
C10_Witness ==
    /\ ReportPrinted
    /\ score.num = 50 * score.den
    /\ Len(Tagged(Report, {"PASSES", "WARNINGS", "VIOLATIONS"})) = 3

(***************************************************************************)
(* C11: once check_factor_1_codebase has run, len(passes) +                *)
(* len(violations) >= 1 (it appends the Git pass or the no-Git             *)
(* violation), and no later step removes a finding; so on a freshly        *)
(* constructed validator the denominator of the score is never zero and    *)
(* the division in validate_all never raises ZeroDivisionError.            *)
(***************************************************************************)
IsPrefix(s, t) == Len(s) <= Len(t) /\ SubSeq(t, 1, Len(s)) = s

C11_ScoreDenominatorNeverZero ==
    /\ [](Ran("Factor I: Codebase") => Len(passes) + Len(violations) >= 1)
    /\ [](pc = "return" => Score(Current).den > 0)
    /\ [](exc # "ZeroDivisionError")
    /\ [][/\ IsPrefix(passes, passes')
          /\ IsPrefix(warnings, warnings')
          /\ IsPrefix(violations, violations')]_vars

\* validate_all reaches its return statement with a single finding that
\* counts: no Git repository, and a manifest whose sub-check appended nothing
C11_Witness ==
    /\ pc = "return"
    /\ passes = <<>>
    /\ violations = <<Msg("No Git repository found")>>

====
